---- MODULE Spec2Model ----
(***************************************************************************)
(* The particle morphing engine of src/components/MorphingParticles.tsx:   *)
(* the morph controller (triggerMorph, the useFrame callback, the React    *)
(* state currentPattern and the closure registered through onRef) and the  *)
(* pattern generators (torusKnot, halvorsen, dualHelix, deJong).           *)
(* With it, the effect of src/components/Lightbox.tsx (SpecLightbox) and   *)
(* handleFileChange of the UI overlay, src/unnamed/part_000 (SpecUpload).  *)
(*                                                                         *)
(* Numbers.  Coordinates are JavaScript doubles that are stored into       *)
(* Float32Arrays.  Both formats are modelled as binary floating point with *)
(* round-to-nearest-even, on a grid of 2^-FRAC_BITS, with DBL_PREC and     *)
(* F32_PREC significant bits (53 and 24 in the program, scaled down here). *)
(* A value v is held as the integer v * ONE.  prog is held in hundredths:  *)
(* the double sum k * 0.03 differs from k * 3 / 100 by less than 1e-14 for *)
(* k <= 34, which never changes the outcome of p >= 1.                     *)
(***************************************************************************)
EXTENDS Integers, Sequences, FiniteSets, TLC

\* ---------------------------------------------------------------- bounds
\* fractional bits of the value grid (the formats' smallest step is 2^-FRAC_BITS)
FRAC_BITS == 10
\* significant bits of a double (53 in the program)
DBL_PREC == 12
\* significant bits of a Float32Array element (24 in the program)
F32_PREC == 5
\* points of the main cloud (15000 in the program, line 123)
PARTICLE_COUNT == 3
\* points of the sparkle cloud (2000 in the program, line 124)
SPARK_COUNT == 1
\* largest count n the generators are called with on their own
MaxN == 11
\* Math.random() returns q / RAND_RES for some q in 0..RAND_RES-1
RAND_RES == 4
\* points of the star field (7000 in the program, line 125)
STAR_COUNT == 1
\* the history counter ticks saturates here (a transition ends after 34 ticks)
MaxTicks == 35
\* largest point set normalise is applied to on its own
MaxPts == 2

\* ------------------------------------------------------- program constants
\* const morphSpeed = 0.03, in hundredths
morphSpeed == 3
\* progress 1.0 in hundredths
PROG_ONE == 100
\* halvorsen: if (i > 200 && i % 25 === 0), for (i = 0; i < n * 25; i++)
WARMUP == 200
SAMPLE_EVERY == 25
\* new THREE.TorusKnotGeometry(10, 3, 200, 16, 2, 3): tubular and radial segments
TUBULAR_SEGMENTS == 200
RADIAL_SEGMENTS == 16

ONE == 2 ^ FRAC_BITS
PatternCount == 4
BufLen == PARTICLE_COUNT * 3
SparkLen == SPARK_COUNT * 3
StarLen == STAR_COUNT * 3

\* -------------------------------------------------------------- arithmetic
Abs(x) == IF x < 0 THEN -x ELSE x

RECURSIVE Quantum(_, _)
\* spacing of the numbers with prec significant bits at magnitude q
Quantum(prec, q) == IF q < 2 ^ prec THEN 1 ELSE 2 * Quantum(prec, q \div 2)

\* a / d rounded to the nearest integer, ties to even (a >= 0, d > 0)
RoundHalfEven(a, d) ==
    LET f == a \div d
        r == a % d
    IN  IF 2 * r > d \/ (2 * r = d /\ f % 2 = 1) THEN f + 1 ELSE f

\* n / den rounded to the nearest number with prec significant bits
RoundTo(prec, n, den) ==
    LET a == Abs(n)
        s == Quantum(prec, a \div den)
        m == RoundHalfEven(a, den * s) * s
    IN  IF n < 0 THEN -m ELSE m

\* the double nearest to n / den: the result of one JavaScript operation
DoubleOf(n, den) == RoundTo(DBL_PREC, n, den)

\* the value read back after a store into a Float32Array
fround(x) == RoundTo(F32_PREC, x, 1)

\* const eased = p >= 1 ? 1 : 1 - Math.pow(1 - p, 3)
Eased(p) ==
    IF p >= PROG_ONE
    THEN ONE
    ELSE DoubleOf(ONE * (PROG_ONE ^ 3 - (PROG_ONE - p) ^ 3), PROG_ONE ^ 3)

\* const val = from[i] + (to[i] - from[i]) * eased
LerpVal(f, t, eased) ==
    LET d == DoubleOf(t - f, 1)
        m == DoubleOf(d * eased, ONE)
    IN  DoubleOf(f + m, 1)

\* ------------------------------------------ the patterns at PARTICLE_COUNT
\* The generators' coordinates at PARTICLE_COUNT, after normalise, as doubles.
\* The trigonometry and the ODE integration are represented by values of the
\* magnitudes the program produces: |v| <= 30, and for dualHelix the exact
\* zero of Math.sin(0) * r and the tiny non-zero Math.cos(angle) * r at a
\* quarter turn (about 1e-15 in the program, one grid step here).
PointOf(j) == (j - 1) \div 3
AxisOf(j) == (j - 1) % 3

\* torusKnot(PARTICLE_COUNT): coordinate j of the normalised knot samples
KnotCoord(j) == (((j * 5) % 7) - 3) * 8 * ONE

\* halvorsen(PARTICLE_COUNT): coordinate j of the normalised trajectory samples
FlowCoord(j) == (((j * 2) % 5) - 2) * 12 * ONE + (j % 2) * 5 * ONE + ONE \div 4

\* dualHelix(PARTICLE_COUNT): x = cos(angle) * r, y = (i / n) * height - height / 2, z = sin(angle) * r
HelixCoord(j) ==
    LET i == PointOf(j)
    IN  CASE AxisOf(j) = 0 -> IF i = 0 THEN 30 * ONE ELSE IF i % 2 = 1 THEN 1 ELSE -15 * ONE
          [] AxisOf(j) = 1 -> (i * 60 * ONE) \div PARTICLE_COUNT - 30 * ONE
          [] OTHER         -> IF i = 0 THEN 0 ELSE IF i % 2 = 1 THEN 15 * ONE ELSE -30 * ONE

\* deJong(PARTICLE_COUNT): coordinate j of the normalised map iterates
MapCoord(j) == (((j * 4) % 9) - 4) * 5 * ONE + ONE \div 2

\* halvorsen pads by pts[Math.floor(Math.random() * pts.length)].clone(): at
\* PARTICLE_COUNT the last point is a copy of an earlier one, r
HalvorsenOutputs ==
    { [j \in 1..BufLen |->
          IF PointOf(j) = PARTICLE_COUNT - 1
          THEN FlowCoord(r * 3 + AxisOf(j) + 1)
          ELSE FlowCoord(j)] : r \in 0..(PARTICLE_COUNT - 2) }

\* PATTERNS[k](PARTICLE_COUNT): the point sets the call can return, flattened
PATTERNS(k) ==
    CASE k = 0 -> { [j \in 1..BufLen |-> KnotCoord(j)] }
      [] k = 1 -> HalvorsenOutputs
      [] k = 2 -> { [j \in 1..BufLen |-> HelixCoord(j)] }
      [] OTHER -> { [j \in 1..BufLen |-> MapCoord(j)] }

\* mutant: the array is allocated with one element per point
ToFloat32ArrayPerPoint(pts) == [j \in 1..PARTICLE_COUNT |-> fround(pts[j])]

\* to[idx] = p.x; ...: the store of a point set into a Float32Array
ToFloat32Array(pts) == [j \in 1..BufLen |-> fround(pts[j])]

\* ------------------------------------------------------------- generators
\* A point is <<x, y, z>>; a point set is a sequence of points.  The values of
\* the trigonometric and ODE expressions are represented by small multiples of
\* ONE; the loops, the sampling, the padding and normalise are as in the code.
Max2(a, b) == IF a >= b THEN a ELSE b
Min2(a, b) == IF a <= b THEN a ELSE b

RECURSIVE AxisMax(_, _, _)
AxisMax(points, k, i) ==
    IF i = 1 THEN points[1][k] ELSE Max2(points[i][k], AxisMax(points, k, i - 1))

RECURSIVE AxisMin(_, _, _)
AxisMin(points, k, i) ==
    IF i = 1 THEN points[1][k] ELSE Min2(points[i][k], AxisMin(points, k, i - 1))

\* mutant: the scale divides by the smallest box dimension
normaliseMinDim(points, size) ==
    IF Len(points) = 0 THEN <<>>
    ELSE LET n == Len(points)
             lo == [k \in 1..3 |-> AxisMin(points, k, n)]
             hi == [k \in 1..3 |-> AxisMax(points, k, n)]
             ext == [k \in 1..3 |-> DoubleOf(hi[k] - lo[k], 1)]
             m == Min2(ext[1], Min2(ext[2], ext[3]))
             maxDim == IF m = 0 THEN ONE ELSE m
             centre == [k \in 1..3 |-> DoubleOf(DoubleOf(lo[k] + hi[k], 1), 2)]
             scale == DoubleOf(size * ONE * ONE, maxDim)
         IN  [i \in 1..n |->
                [k \in 1..3 |-> DoubleOf(DoubleOf(points[i][k] - centre[k], 1) * scale, ONE)]]

\* mutant: the points are scaled without being moved to the box centre
normaliseUncentred(points, size) ==
    IF Len(points) = 0 THEN <<>>
    ELSE LET n == Len(points)
             lo == [k \in 1..3 |-> AxisMin(points, k, n)]
             hi == [k \in 1..3 |-> AxisMax(points, k, n)]
             ext == [k \in 1..3 |-> DoubleOf(hi[k] - lo[k], 1)]
             m == Max2(ext[1], Max2(ext[2], ext[3]))
             maxDim == IF m = 0 THEN ONE ELSE m
             scale == DoubleOf(size * ONE * ONE, maxDim)
         IN  [i \in 1..n |->
                [k \in 1..3 |-> DoubleOf(points[i][k] * scale, ONE)]]

\* mutant: division by zero is avoided by dividing by maxDim + 1
normalisePlusOne(points, size) ==
    IF Len(points) = 0 THEN <<>>
    ELSE LET n == Len(points)
             lo == [k \in 1..3 |-> AxisMin(points, k, n)]
             hi == [k \in 1..3 |-> AxisMax(points, k, n)]
             ext == [k \in 1..3 |-> DoubleOf(hi[k] - lo[k], 1)]
             m == Max2(ext[1], Max2(ext[2], ext[3]))
             maxDim == DoubleOf(m + ONE, 1)
             centre == [k \in 1..3 |-> DoubleOf(DoubleOf(lo[k] + hi[k], 1), 2)]
             scale == DoubleOf(size * ONE * ONE, maxDim)
         IN  [i \in 1..n |->
                [k \in 1..3 |-> DoubleOf(DoubleOf(points[i][k] - centre[k], 1) * scale, ONE)]]

\* function normalise(points, size)
normalise(points, size) ==
    IF Len(points) = 0 THEN <<>>
    ELSE LET n == Len(points)
             lo == [k \in 1..3 |-> AxisMin(points, k, n)]
             hi == [k \in 1..3 |-> AxisMax(points, k, n)]
             ext == [k \in 1..3 |-> DoubleOf(hi[k] - lo[k], 1)]
             m == Max2(ext[1], Max2(ext[2], ext[3]))
             maxDim == IF m = 0 THEN ONE ELSE m
             centre == [k \in 1..3 |-> DoubleOf(DoubleOf(lo[k] + hi[k], 1), 2)]
             scale == DoubleOf(size * ONE * ONE, maxDim)
         IN  [i \in 1..n |->
                [k \in 1..3 |-> DoubleOf(DoubleOf(points[i][k] - centre[k], 1) * scale, ONE)]]

\* positionAttribute.count of the knot geometry
KnotVertexCount == (TUBULAR_SEGMENTS + 1) * (RADIAL_SEGMENTS + 1)

\* new THREE.Vector3().fromBufferAttribute(positionAttribute, v)
KnotVertex(v) == <<(((v * 3) % 7) - 3) * ONE, (((v * 5) % 11) - 5) * ONE, ((v % 3) - 1) * ONE>>

\* function torusKnot(n)
torusKnot(n) == normalise([i \in 1..n |-> KnotVertex((i - 1) % KnotVertexCount)], 50)

\* the (x, y, z) of the Halvorsen trajectory after integration step i
HalvorsenPoint(i) == <<(((i * 7) % 13) - 6) * ONE, (((i \div 25) % 9) - 4) * ONE, (((i * 3) % 5) - 2) * ONE>>

\* if (i > 200 && i % 25 === 0) pts.push(new THREE.Vector3(x, y, z))
Sampled(i, pts) ==
    IF i > WARMUP /\ i % SAMPLE_EVERY = 0 THEN Append(pts, HalvorsenPoint(i)) ELSE pts

\* Math.floor(Math.random() * pts.length), for Math.random() = q / RAND_RES
RandomIndex(q, len) == (q * len) \div RAND_RES

\* Math.cos and Math.sin of (i / n) * Math.PI * 2 * turns, to the quarter turn.
\* Only Math.sin(0) is an exact zero: at the other multiples of a quarter turn
\* the argument is a rounded multiple of Math.PI and the result is tiny and
\* non-zero (Math.cos(Math.PI / 2) is 6.1e-17), one grid step here.
QuarterOf(i, n) == ((i * 20) \div n) % 4
CosQ(q) == CASE q = 0 -> ONE [] q = 1 -> 1 [] q = 2 -> -ONE [] OTHER -> -1
SinQ(q) == CASE q = 0 -> 0 [] q = 1 -> ONE [] q = 2 -> 1 [] OTHER -> -ONE

\* the point pushed by dualHelix for index i
HelixPoint(i, n) ==
    LET r == 15 + (IF i % 2 = 0 THEN 5 ELSE -5)
    IN  <<CosQ(QuarterOf(i, n)) * r,
          DoubleOf(DoubleOf(i * ONE, n) * 40, 1) - 20 * ONE,
          SinQ(QuarterOf(i, n)) * r>>

\* function dualHelix(n)
dualHelix(n) == normalise([i \in 1..n |-> HelixPoint(i - 1, n)], 60)

\* the point pushed by deJong in iteration i
DeJongPoint(i) == <<((((i * 5) % 9) - 4) * ONE) \div 2, ((((i * 2) % 7) - 3) * ONE) \div 2, ((i % 3) - 1) * ONE>>

\* function deJong(n)
deJong(n) == normalise([i \in 1..n |-> DeJongPoint(i - 1)], 55)

\* ------------------------------------------------------------------ state
VARIABLES
    mounted,        \* particlesRef.current and sparklesRef.current are set, the effects have run
    currentPattern, \* the React state set by setCurrentPattern
    closurePattern, \* the currentPattern captured by the triggerMorph registered through onRef
    isTrans,        \* isTrans.current
    prog,           \* prog.current, in hundredths
    userData,       \* userData.current: [from, to, next]
    particleArr,    \* the main cloud's position array
    sparkleArr,     \* the sparkle cloud's position array
    starArr,        \* the star field's position array
    particleNeedsUpdate, \* the main position attribute is marked for upload
    sparkleNeedsUpdate,  \* the sparkle position attribute is marked for upload
    ticks,          \* history: Transitioning ticks since the last accepted trigger
    sched,          \* history: the target stored by the last accepted trigger
    reentered,      \* history: a trigger was ignored during the current transition
    tickedIdle,     \* history: the last useFrame callback ran while Idle
    gen,            \* a call on its own: [name, n, pc, i, pts, result, run, first]
    lightbox,       \* the Lightbox component, its effect and the document it touches
    upload          \* one change event of the file input and the reads it started

morphVars == <<mounted, currentPattern, closurePattern, isTrans, prog, userData,
               particleArr, sparkleArr, starArr, particleNeedsUpdate,
               sparkleNeedsUpdate, ticks, sched, reentered, tickedIdle>>

uiVars == <<lightbox, upload>>

vars == <<morphVars, gen, uiVars>>

\* the outcome of a call: how it ended and what it returned
NoOutcome == [pc |-> "none", result |-> <<>>]

NoCall == [name |-> "none", n |-> 0, pc |-> "idle", i |-> 0, pts |-> <<>>, result |-> <<>>,
           run |-> 1, first |-> NoOutcome]

Zeros(n) == [j \in 1..n |-> 0]

\* Math.random() in starsGeometry: the draws of one star, two outcomes
StarDraws == 0..1

\* pos[i3] = r * sin(phi) * cos(theta), ... for the draws q, with R = 900
StarPoint(q) ==
    IF q = 0 THEN <<450 * ONE, -120 * ONE + 1, 300 * ONE>>
             ELSE <<-700 * ONE, 64 * ONE, ONE \div 8>>

\* the position arrays starsGeometry can build: new Float32Array(STAR_COUNT * 3)
StarFields ==
    { [j \in 1..StarLen |-> fround(StarPoint(f[PointOf(j)])[AxisOf(j) + 1])] :
         f \in [0..(STAR_COUNT - 1) -> StarDraws] }

\* photoUrl: null, or one of the URLs 1..MaxUrls (data URLs, never empty)
Null == 0

\* no effect of the Lightbox has run yet
NoEffect == [id |-> 0, photoUrl |-> Null, onClose |-> 0]

\* no key has been pressed yet
NoKey == [key |-> "none", called |-> {}, open |-> FALSE, onClose |-> 0, settled |-> FALSE]

\* the Lightbox is not mounted and document.body.style.overflow is ''
NoLightbox ==
    [mounted |-> FALSE, photoUrl |-> Null, onClose |-> 0, pending |-> FALSE,
     effect |-> NoEffect, listeners |-> {}, overflow |-> "", lastKey |-> NoKey]

\* the file input has not fired a change event
NoUpload == [pc |-> "idle", files |-> <<>>, readers |-> <<>>, finished |-> <<>>,
             calls |-> <<>>]

\* the photo UI has not been touched
UiIdle == lightbox = NoLightbox /\ upload = NoUpload

Init ==
    /\ mounted = FALSE
    /\ currentPattern = 0
    /\ closurePattern = 0
    /\ isTrans = FALSE
    /\ prog = 0
    /\ userData = [from |-> <<>>, to |-> <<>>, next |-> 0]
    /\ particleArr = Zeros(BufLen)
    /\ sparkleArr = Zeros(SparkLen)
    /\ starArr \in StarFields
    /\ particleNeedsUpdate = FALSE
    /\ sparkleNeedsUpdate = FALSE
    /\ ticks = 0
    /\ sched = <<>>
    /\ reentered = FALSE
    /\ tickedIdle = FALSE
    /\ gen = NoCall
    /\ UiIdle

\* ------------------------------------------------------------- operations
\* const next = (currentPattern + 1) % PATTERNS.length, on the captured currentPattern
NextIndex(cp) == (cp + 1) % PatternCount

\* if (!isTrans.current && particlesRef.current)
TriggerAccepted == ~isTrans /\ mounted

\* const fromPts = new Float32Array(currentPositions): a copy of the elements
SnapshotFrom(arr) == [j \in 1..Len(arr) |-> arr[j]]

\* mutant: userData.from is the position array itself, not a copy
FromAliased(fromArr, newMain) == newMain

\* what userData.from holds after the position array has been rewritten to
\* newMain: the copy made by new Float32Array(currentPositions) shares no storage
FromAfterWrite(fromArr, newMain) == fromArr

\* mutant: progress is clamped to 1
AdvanceClamped(p) == IF p + morphSpeed > PROG_ONE THEN PROG_ONE ELSE p + morphSpeed

\* mutant: the step is lost
AdvanceStalled(p) == p

\* prog.current += morphSpeed
Advance(p) == p + morphSpeed

\* mutant: the transition ends one tick late
CompletesLate(p) == p > PROG_ONE + morphSpeed

\* if (p >= 1) { isTrans.current = false; setCurrentPattern(next); }
Completes(p) == p >= PROG_ONE

\* mutant: the loop stops one coordinate short
MorphedMainShort(fromArr, toArr, eased) ==
    [i \in 1..Len(particleArr) |->
        IF i < Len(particleArr)
        THEN fround(LerpVal(fromArr[i], toArr[i], eased))
        ELSE particleArr[i]]

\* mutant: coordinate i moves toward the target of the mirrored index
MorphedMainCrossed(fromArr, toArr, eased) ==
    [i \in 1..Len(particleArr) |->
        fround(LerpVal(fromArr[i], toArr[Len(particleArr) + 1 - i], eased))]

\* particleArr[i] = val, for i < particleArr.length
MorphedMain(fromArr, toArr, eased) ==
    [i \in 1..Len(particleArr) |-> fround(LerpVal(fromArr[i], toArr[i], eased))]

\* mutant: the sparkle cloud is written only while it differs from the target
MirrorSparkleUntilDone(newMain) ==
    [i \in 1..Len(sparkleArr) |-> IF newMain[i] = userData.to[i] THEN sparkleArr[i] ELSE newMain[i]]

\* if (i < sparkleArr.length) sparkleArr[i] = val
MirrorSparkle(newMain) == [i \in 1..Len(sparkleArr) |-> newMain[i]]

\* if (j < SPARK_COUNT) { sparkleArr[idx] = p.x; ... }, in applyPattern
ApplySparkle(pts) == [i \in 1..SparkLen |-> fround(pts[i])]

\* mutant: the callback also moves the star positions
StarsDrifting(stars) == [j \in 1..Len(stars) |-> fround(stars[j] + ONE)]

\* the star position array after a useFrame callback: the callback touches
\* only the star material's time uniform
StarsAfterFrame(stars) == stars

\* mutant: every callback marks the position attributes for upload
NeedsUpdateEveryTick(wasTrans, flag) == TRUE

\* attributes.position.needsUpdate after a useFrame callback that started with
\* isTrans.current = wasTrans: set inside if (isTrans.current) { if (to) { ... } }
NeedsUpdateAfterTick(wasTrans, flag) == IF wasTrans THEN TRUE ELSE flag

\* The mount effects: applyPattern(currentPattern), then onRef({triggerMorph})
MountEffects ==
    /\ ~mounted
    /\ mounted' = TRUE
    /\ \E pts \in PATTERNS(currentPattern) :
          /\ particleArr' = ToFloat32Array(pts)
          /\ sparkleArr' = ApplySparkle(pts)
    /\ particleNeedsUpdate' = TRUE
    /\ sparkleNeedsUpdate' = TRUE
    /\ closurePattern' = currentPattern
    /\ UNCHANGED <<currentPattern, isTrans, prog, userData, starArr, ticks, sched,
                   reentered, tickedIdle, gen, uiVars>>

\* The effect with deps [currentPattern, onRef] runs again after the re-render
\* that setCurrentPattern asked for and registers a new closure
Rerender ==
    /\ mounted
    /\ closurePattern # currentPattern
    /\ closurePattern' = currentPattern
    /\ UNCHANGED <<mounted, currentPattern, isTrans, prog, userData,
                   particleArr, sparkleArr, starArr, particleNeedsUpdate,
                   sparkleNeedsUpdate, ticks, sched, reentered, tickedIdle, gen, uiVars>>

\* triggerMorph, the closure last registered through onRef
TriggerMorph ==
    /\ mounted
    /\ IF TriggerAccepted
       THEN /\ isTrans' = TRUE
            /\ prog' = 0
            /\ \E pts \in PATTERNS(NextIndex(closurePattern)) :
                  userData' = [from |-> SnapshotFrom(particleArr),
                               to   |-> ToFloat32Array(pts),
                               next |-> NextIndex(closurePattern)]
            /\ ticks' = 0
            /\ sched' = userData'.to
            /\ reentered' = FALSE
       ELSE /\ reentered' = TRUE
            /\ UNCHANGED <<isTrans, prog, userData, ticks, sched>>
    /\ UNCHANGED <<mounted, currentPattern, closurePattern, particleArr, sparkleArr,
                   starArr, particleNeedsUpdate, sparkleNeedsUpdate, tickedIdle, gen, uiVars>>

\* The useFrame callback (the time uniforms and the rotation are not state of
\* the morph and are left out)
Tick ==
    /\ mounted
    /\ IF isTrans
       THEN LET p == Advance(prog)
                newMain == MorphedMain(userData.from, userData.to, Eased(p))
            IN  /\ prog' = p
                /\ particleArr' = newMain
                /\ sparkleArr' = MirrorSparkle(newMain)
                /\ userData' = [userData EXCEPT !.from = FromAfterWrite(@, newMain)]
                /\ ticks' = Min2(ticks + 1, MaxTicks)
                /\ tickedIdle' = FALSE
                /\ IF Completes(p)
                   THEN /\ isTrans' = FALSE
                        /\ currentPattern' = userData.next
                   ELSE UNCHANGED <<isTrans, currentPattern>>
       ELSE /\ tickedIdle' = TRUE
            /\ UNCHANGED <<prog, particleArr, sparkleArr, userData, ticks, isTrans,
                           currentPattern>>
    /\ particleNeedsUpdate' = NeedsUpdateAfterTick(isTrans, particleNeedsUpdate)
    /\ sparkleNeedsUpdate' = NeedsUpdateAfterTick(isTrans, sparkleNeedsUpdate)
    /\ starArr' = StarsAfterFrame(starArr)
    /\ UNCHANGED <<mounted, closurePattern, sched, reentered, gen, uiVars>>

\* The renderer draws the three <points> objects: it uploads a position
\* attribute that is marked and clears the mark
RenderFrame ==
    /\ mounted
    /\ particleNeedsUpdate \/ sparkleNeedsUpdate
    /\ particleNeedsUpdate' = FALSE
    /\ sparkleNeedsUpdate' = FALSE
    /\ UNCHANGED <<mounted, currentPattern, closurePattern, isTrans, prog, userData,
                   particleArr, sparkleArr, starArr, ticks, sched, reentered,
                   tickedIdle, gen, uiVars>>

Next == MountEffects \/ Rerender \/ TriggerMorph \/ Tick \/ RenderFrame

Spec == Init /\ [][Next]_vars

\* The useFrame callback taken while Transitioning, by what identifies it among
\* the steps of Next: it is the only step that advances prog
TransitioningTick == mounted /\ isTrans /\ prog' = Advance(prog)

\* The steps of TransitioningTick that change prog are exactly the useFrame
\* callbacks taken while Transitioning
TransitioningTickIsTick == [][(<<TransitioningTick>>_prog) <=> (Tick /\ isTrans)]_vars

\* useFrame callbacks keep being scheduled, one per rendered frame
SpecLive == Spec /\ WF_prog(TransitioningTick)

\* --------------------------------------------- generator calls on their own
Generators == {"torusKnot", "halvorsen", "dualHelix", "deJong"}

\* the component is not constructed: the functions are called on their own
NotConstructed ==
    /\ mounted = FALSE
    /\ currentPattern = 0
    /\ closurePattern = 0
    /\ isTrans = FALSE
    /\ prog = 0
    /\ userData = [from |-> <<>>, to |-> <<>>, next |-> 0]
    /\ particleArr = Zeros(BufLen)
    /\ sparkleArr = Zeros(SparkLen)
    /\ starArr = Zeros(StarLen)
    /\ particleNeedsUpdate = FALSE
    /\ sparkleNeedsUpdate = FALSE
    /\ ticks = 0
    /\ sched = <<>>
    /\ reentered = FALSE
    /\ tickedIdle = FALSE

\* a call of generator g with count k
CallOf(g, k) ==
    [name |-> g, n |-> k, pc |-> "call", i |-> 0, pts |-> <<>>, result |-> <<>>,
     run |-> 1, first |-> NoOutcome]

InitGen ==
    /\ NotConstructed
    /\ UiIdle
    /\ gen \in { CallOf(g, k) : g \in Generators, k \in 1..MaxN }

\* mutant: a repeated call hands back its points in the opposite order
ReturnReversedOnRepeat(points) ==
    [gen EXCEPT !.pc = "done",
                !.result = IF gen.run = 2
                           THEN [i \in 1..Len(points) |-> points[Len(points) + 1 - i]]
                           ELSE points]

\* return normalise(...): the call ends with the point set it returns
Return(points) == [gen EXCEPT !.pc = "done", !.result = points]

CallTorusKnot ==
    /\ gen.name = "torusKnot" /\ gen.pc = "call"
    /\ gen' = Return(torusKnot(gen.n))
    /\ UNCHANGED <<morphVars, uiVars>>

CallDualHelix ==
    /\ gen.name = "dualHelix" /\ gen.pc = "call"
    /\ gen' = Return(dualHelix(gen.n))
    /\ UNCHANGED <<morphVars, uiVars>>

CallDeJong ==
    /\ gen.name = "deJong" /\ gen.pc = "call"
    /\ gen' = Return(deJong(gen.n))
    /\ UNCHANGED <<morphVars, uiVars>>

\* halvorsen, lines 154-165: one iteration of the integration loop
HalvorsenStep ==
    /\ gen.name = "halvorsen" /\ gen.pc = "call"
    /\ gen.i < gen.n * SAMPLE_EVERY
    /\ LET pushed == Sampled(gen.i, gen.pts)
       IN  gen' = IF Len(pushed) >= gen.n
                  THEN [gen EXCEPT !.pts = pushed, !.pc = "pad"]
                  ELSE [gen EXCEPT !.pts = pushed, !.i = @ + 1]
    /\ UNCHANGED <<morphVars, uiVars>>

\* halvorsen, line 154: the loop ends with its budget of n * 25 steps
HalvorsenBudgetSpent ==
    /\ gen.name = "halvorsen" /\ gen.pc = "call"
    /\ ~(gen.i < gen.n * SAMPLE_EVERY)
    /\ gen' = [gen EXCEPT !.pc = "pad"]
    /\ UNCHANGED <<morphVars, uiVars>>

\* halvorsen, line 166: one iteration of the padding loop.  pts[k] of an index
\* outside the array is undefined, and undefined.clone() throws a TypeError
HalvorsenPad ==
    /\ gen.name = "halvorsen" /\ gen.pc = "pad"
    /\ Len(gen.pts) < gen.n
    /\ \E q \in 0..(RAND_RES - 1) :
          LET k == RandomIndex(q, Len(gen.pts))
          IN  IF k < Len(gen.pts)
              THEN gen' = [gen EXCEPT !.pts = Append(@, gen.pts[k + 1])]
              ELSE gen' = [gen EXCEPT !.pc = "thrown"]
    /\ UNCHANGED <<morphVars, uiVars>>

\* halvorsen, line 167: return normalise(pts, 60)
HalvorsenReturn ==
    /\ gen.name = "halvorsen" /\ gen.pc = "pad"
    /\ ~(Len(gen.pts) < gen.n)
    /\ gen' = Return(normalise(gen.pts, 60))
    /\ UNCHANGED <<morphVars, uiVars>>

NextGen ==
    \/ CallTorusKnot \/ CallDualHelix \/ CallDeJong
    \/ HalvorsenStep \/ HalvorsenBudgetSpent \/ HalvorsenPad \/ HalvorsenReturn

SpecGen == InitGen /\ [][NextGen]_vars

\* ------------------------------------------- the same generator called twice
\* the counts around halvorsen's first sample at step WARMUP + SAMPLE_EVERY: 1
\* (no sample), 10 (one sample, the padding has no choice) and 11 (two samples)
PairCounts == {1, WARMUP \div SAMPLE_EVERY + 2, WARMUP \div SAMPLE_EVERY + 3}

InitPair ==
    /\ NotConstructed
    /\ UiIdle
    /\ gen \in { CallOf(g, k) : g \in Generators, k \in PairCounts }

\* the same generator is called again with the same count; first keeps how
\* the first call ended
CallAgain ==
    /\ gen.name \in Generators
    /\ gen.pc \in {"done", "thrown"}
    /\ gen.run = 1
    /\ gen' = [CallOf(gen.name, gen.n) EXCEPT !.run = 2,
                                              !.first = [pc |-> gen.pc, result |-> gen.result]]
    /\ UNCHANGED <<morphVars, uiVars>>

NextPair == NextGen \/ CallAgain

SpecPair == InitPair /\ [][NextPair]_vars

\* ------------------------------------------------------ normalise on its own
\* the sizes normalise is called with: torusKnot 50, deJong 55, halvorsen and dualHelix 60
NormSizes == {50, 55, 60}

\* coordinates of the point sets normalise is applied to: doubles of a few
\* units whose sums and differences are not all doubles
NormCoords == {3 - 4 * ONE, 2 * ONE + 2, 4 * ONE - 1}

NormPoints == { <<x, y, z>> : x \in NormCoords, y \in NormCoords, z \in NormCoords }

\* the non-empty point sets of at most MaxPts points
NormInputs == UNION { [1..k -> NormPoints] : k \in 1..MaxPts }

InitNorm ==
    /\ NotConstructed
    /\ UiIdle
    /\ gen \in { [name |-> "normalise", n |-> size, pc |-> "call", i |-> 0, pts |-> P,
                   result |-> <<>>, run |-> 1, first |-> NoOutcome] :
                    size \in NormSizes, P \in NormInputs }

\* normalise(points, size)
CallNormalise ==
    /\ gen.name = "normalise" /\ gen.pc = "call"
    /\ gen' = Return(normalise(gen.pts, gen.n))
    /\ UNCHANGED <<morphVars, uiVars>>

\* normalise(result, size), on the point set the first call returned; first
\* keeps what the first call returned
CallNormaliseAgain ==
    /\ gen.name = "normalise" /\ gen.pc = "done" /\ gen.run = 1
    /\ gen' = [gen EXCEPT !.run = 2,
                          !.first = [pc |-> gen.pc, result |-> gen.result],
                          !.result = normalise(gen.result, gen.n)]
    /\ UNCHANGED <<morphVars, uiVars>>

NextNorm == CallNormalise \/ CallNormaliseAgain

SpecNorm == InitNorm /\ [][NextNorm]_vars

\* ------------------------------------------------------- the Lightbox
\* the URLs photoUrl ranges over, besides null
MaxUrls == 2

\* the function identities onClose ranges over
MaxCallbacks == 2

\* the handleKeyDown closures that can be alive at once
MaxHandlers == 3

\* the URLs photoUrl can hold
Urls == 1..MaxUrls

\* the identities the onClose prop can have
Callbacks == 1..MaxCallbacks

\* the identities of the handleKeyDown closures the effect creates
Handlers == 1..MaxHandlers

\* e.key of a keydown event
Keys == {"Escape", "Enter"}

\* if (photoUrl): null is falsy, a URL is a non-empty string
Truthy(p) == p # Null

\* the closure identities still held by the document or by the last effect
UsedHandlers(l) == { h.id : h \in l.listeners } \cup {l.effect.id}

HasFreshHandler(l) == Handlers \ UsedHandlers(l) # {}

\* const handleKeyDown = ...: a new closure on every run of the effect
FreshHandler(l) ==
    CHOOSE h \in Handlers \ UsedHandlers(l) :
        \A g \in Handlers \ UsedHandlers(l) : h <= g

\* the cleanup leaves the listener in place
KeepListener(ls, h) == ls

\* document.removeEventListener('keydown', handleKeyDown)
RemoveListener(ls, h) == ls \ {h}

\* the function the effect returned, if an effect has run
Cleanup(l) ==
    IF l.effect = NoEffect
    THEN l
    ELSE [l EXCEPT !.listeners = RemoveListener(@, [id |-> l.effect.id,
                                                    onClose |-> l.effect.onClose]),
                   !.overflow = ""]

\* the body of the effect, with the props of the render that scheduled it
RunEffect(l) ==
    LET h == [id |-> FreshHandler(l), onClose |-> l.onClose]
    IN  [l EXCEPT !.effect = [id |-> h.id, photoUrl |-> l.photoUrl, onClose |-> l.onClose],
                  !.listeners = IF Truthy(l.photoUrl) THEN @ \cup {h} ELSE @,
                  !.overflow = IF Truthy(l.photoUrl) THEN "hidden" ELSE @,
                  !.pending = FALSE]

\* React runs the pending effect: the previous cleanup first, then the body
Flushed(l) == IF l.pending THEN RunEffect(Cleanup(l)) ELSE l

\* the parent renders <Lightbox photoUrl={p} onClose={c} /> for the first time
LightboxMount ==
    /\ ~lightbox.mounted
    /\ \E p \in {Null} \cup Urls, c \in Callbacks :
          lightbox' = [lightbox EXCEPT !.mounted = TRUE, !.photoUrl = p, !.onClose = c,
                                       !.pending = TRUE, !.effect = NoEffect]
    /\ UNCHANGED <<morphVars, gen, upload>>

\* a render with a changed dep of [photoUrl, onClose]; effects of the render
\* before it are run first, the new effect is scheduled
LightboxRender ==
    /\ lightbox.mounted
    /\ HasFreshHandler(lightbox)
    /\ \E p \in {Null} \cup Urls, c \in Callbacks :
          /\ <<p, c>> # <<lightbox.photoUrl, lightbox.onClose>>
          /\ lightbox' = [Flushed(lightbox) EXCEPT !.photoUrl = p, !.onClose = c,
                                                   !.pending = TRUE]
    /\ UNCHANGED <<morphVars, gen, upload>>

\* the scheduled effect runs
LightboxEffects ==
    /\ lightbox.mounted
    /\ lightbox.pending
    /\ HasFreshHandler(lightbox)
    /\ lightbox' = Flushed(lightbox)
    /\ UNCHANGED <<morphVars, gen, upload>>

\* the parent stops rendering the Lightbox: the last cleanup runs
LightboxUnmount ==
    /\ lightbox.mounted
    /\ HasFreshHandler(lightbox)
    /\ lightbox' = [Cleanup(Flushed(lightbox)) EXCEPT !.mounted = FALSE,
                                                      !.photoUrl = Null, !.onClose = 0,
                                                      !.pending = FALSE,
                                                      !.effect = NoEffect]
    /\ UNCHANGED <<morphVars, gen, upload>>

\* a keydown event on the document: every registered handleKeyDown runs;
\* lastKey keeps the handlers that called their onClose and the props then
KeyDown ==
    /\ \E k \in Keys :
          lightbox' = [lightbox EXCEPT !.lastKey =
              [key |-> k,
               called |-> IF k = "Escape" THEN lightbox.listeners ELSE {},
               open |-> lightbox.mounted /\ Truthy(lightbox.photoUrl),
               onClose |-> lightbox.onClose,
               settled |-> ~lightbox.pending]]
    /\ UNCHANGED <<morphVars, gen, upload>>

InitLightbox ==
    /\ NotConstructed
    /\ gen = NoCall
    /\ UiIdle

NextLightbox ==
    LightboxMount \/ LightboxRender \/ LightboxEffects \/ LightboxUnmount \/ KeyDown

SpecLightbox == InitLightbox /\ [][NextLightbox]_vars

\* ------------------------------------------------------- the photo upload
\* largest number of files in one selection
MaxFiles == 3

\* file.type of the files a selection can hold
FileTypes == {"image/png", "text/plain"}

\* e.target.files: at most MaxFiles files, the i-th with content i
FileLists ==
    UNION { { [i \in 1..k |-> [type |-> t[i], content |-> i]] : t \in [1..k -> FileTypes] } :
              k \in 0..MaxFiles }

\* file.type.startsWith('image/')
IsImage(file) == file.type = "image/png"

\* reader.readAsDataURL(file): event.target.result of the load event
DataURL(file) == <<"data:", file.type, ";base64,", file.content>>

\* the positions of the files the loop does not skip, in loop order
ImageIndices(files) ==
    SelectSeq([i \in 1..Len(files) |-> i], LAMBDA i : IsImage(files[i]))

\* the promises the loop pushes on readers, one per file it does not skip
StartedReaders(files) ==
    [j \in 1..Len(ImageIndices(files)) |->
        [file |-> ImageIndices(files)[j], state |-> "pending", value |-> <<>>]]

\* handleFileChange, up to the registration of the then callback
HandleFileChange ==
    /\ upload.pc = "idle"
    /\ \E files \in FileLists :
          upload' = IF Len(files) = 0
                    THEN [upload EXCEPT !.pc = "returned", !.files = files]
                    ELSE [upload EXCEPT !.pc = "reading", !.files = files,
                                        !.readers = StartedReaders(files)]
    /\ UNCHANGED <<morphVars, gen, lightbox>>

\* reader.onload of the j-th reader: the promise resolves with the data URL
ReaderLoad ==
    /\ \E j \in 1..Len(upload.readers) :
          /\ upload.readers[j].state = "pending"
          /\ upload' = [upload EXCEPT
                !.readers[j] = [@ EXCEPT !.state = "resolved",
                                         !.value = DataURL(upload.files[upload.readers[j].file])],
                !.finished = Append(@, j)]
    /\ UNCHANGED <<morphVars, gen, lightbox>>

\* the read of the j-th reader fails: the FileReader fires error, not load;
\* no handler is set and the promise stays pending
ReaderError ==
    /\ \E j \in 1..Len(upload.readers) :
          /\ upload.readers[j].state = "pending"
          /\ upload' = [upload EXCEPT !.readers[j] = [@ EXCEPT !.state = "error"],
                                      !.finished = Append(@, j)]
    /\ UNCHANGED <<morphVars, gen, lightbox>>

\* Promise.all(readers) is fulfilled with the values in the order of readers
\* and the then callback calls onPhotosUpload(urls)
PromiseAllThen ==
    /\ upload.pc = "reading"
    /\ \A j \in 1..Len(upload.readers) : upload.readers[j].state = "resolved"
    /\ upload' = [upload EXCEPT
          !.pc = "done",
          !.calls = Append(@, [j \in 1..Len(upload.readers) |-> upload.readers[j].value])]
    /\ UNCHANGED <<morphVars, gen, lightbox>>

InitUpload ==
    /\ NotConstructed
    /\ gen = NoCall
    /\ UiIdle

NextUpload == HandleFileChange \/ ReaderLoad \/ ReaderError \/ PromiseAllThen

SpecUpload == InitUpload /\ [][NextUpload]_vars

\* ------------------------------------------------------------ properties
\* ceil(1 / morphSpeed)
MorphTicks == (PROG_ONE + morphSpeed - 1) \div morphSpeed

\* the Float32Arrays triggerMorph can store for pattern k
Targets(k) == { ToFloat32Array(pts) : pts \in PATTERNS(k) }

\* C1: a trigger made while a transition is active changes nothing, so the
\* transition it interrupted ends with the main buffer equal to the target
\* that was scheduled when the transition began.
C1_ReentrantEndsAtScheduled ==
    /\ reentered => userData.to = sched
    /\ (reentered /\ ticks = MorphTicks) => particleArr = sched

\* The frame part of C1 alone: an ignored trigger leaves from, to, next,
\* progress and both buffers as they were.
ReentrantTriggerIsNoOp ==
    [][(isTrans /\ TriggerMorph) =>
          UNCHANGED <<isTrans, prog, userData, particleArr, sparkleArr, currentPattern>>]_vars

\* C2: one trigger from pattern 0 and exactly 34 = ceil(1/0.03) ticks later the
\* controller is Idle, the current pattern is 1 and the main buffer equals the
\* pattern-1 target generated at the trigger; up to 33 ticks it is Transitioning.
C2_EndToEnd ==
    /\ MorphTicks = 34
    /\ isTrans => ticks < MorphTicks
    /\ ticks \in 1..(MorphTicks - 1) => isTrans
    /\ (ticks = MorphTicks /\ userData.next = 1) =>
          /\ ~isTrans
          /\ currentPattern = 1
          /\ userData.to \in Targets(1)
          /\ \A i \in 1..BufLen : particleArr[i] = userData.to[i]

C2_Witness ==
    /\ ticks = MorphTicks
    /\ userData.next = 1
    /\ userData.from \in Targets(0)
    /\ ~isTrans
    /\ currentPattern = 1
    /\ particleArr = userData.to

\* C3: on the tick where progress first becomes >= 1 the eased value is exactly
\* 1 and every main coordinate, and every sparkle coordinate, equals to[i].
C3_EndpointExact ==
    ticks = MorphTicks =>
        /\ Eased(prog) = ONE
        /\ \A i \in 1..BufLen : particleArr[i] = userData.to[i]
        /\ \A i \in 1..SparkLen : sparkleArr[i] = userData.to[i]

\* C4 as claimed: the completed transition has progress exactly 1.
C4_ReachesExactlyOne == ticks = MorphTicks => prog = PROG_ONE

\* C4 as amended: progress is non-decreasing within a transition, each
\* Transitioning tick adds morphSpeed and nothing else changes it but the
\* accepted trigger's reset; it stays below 1 for 33 ticks and is 34 * 0.03 =
\* 1.02 after the 34th, never exactly 1.
C4_Monotone ==
    /\ [](/\ prog = ticks * morphSpeed
          /\ ticks <= MorphTicks
          /\ prog # PROG_ONE
          /\ isTrans <=> (ticks < MorphTicks /\ sched # <<>>))
    /\ [][isTrans => prog' >= prog]_vars
    /\ [][prog' # prog => \/ isTrans /\ prog' = prog + morphSpeed
                          \/ ~isTrans /\ isTrans' /\ prog' = 0]_vars

C4_Witness == ticks = MorphTicks /\ ~isTrans /\ prog = MorphTicks * morphSpeed /\ prog > PROG_ONE

\* C7: every accepted trigger schedules the successor of the most recently
\* completed pattern, whenever it is fired.
C7_CyclicOrder == isTrans => userData.next = NextIndex(currentPattern)

\* C8 as claimed: progress lies in [0,1] in every reachable state.
C8_ProgressInUnit == 0 <= prog /\ prog <= PROG_ONE

\* C8 as amended: progress lies in [0,1) while Transitioning; Idle it is 0
\* before the first trigger and in [1, 1 + morphSpeed) after a completed
\* transition, so it exceeds 1 there.
C8_ProgressRange ==
    /\ isTrans => 0 <= prog /\ prog < PROG_ONE
    /\ ~isTrans => prog = 0 \/ (PROG_ONE <= prog /\ prog < PROG_ONE + morphSpeed)

C8_Witness == ~isTrans /\ prog > PROG_ONE /\ ticks = MorphTicks

\* C9: after the initial fill and after every trigger and tick, the sparkle
\* buffer equals the first SPARK_COUNT*3 coordinates of the main buffer.
C9_SparkleMirror ==
    /\ Len(sparkleArr) = SparkLen
    /\ \A i \in 1..SparkLen : sparkleArr[i] = particleArr[i]

C9_Witness ==
    /\ isTrans
    /\ ticks > 1
    /\ \E i \in 1..SparkLen : sparkleArr[i] # userData.from[i] /\ sparkleArr[i] # userData.to[i]
    /\ \A i \in 1..SparkLen : sparkleArr[i] = particleArr[i]

\* C10: a trigger received while Idle starts a transition with progress 0,
\* from a copy of the main buffer as it is, to the stored output of
\* PATTERNS[next](PARTICLE_COUNT), and writes neither buffer; no later buffer
\* write changes from.
C10_TriggerWhileIdle ==
    /\ [][(TriggerMorph /\ ~isTrans) => isTrans']_vars
    /\ [][(~isTrans /\ isTrans') =>
            /\ prog' = 0
            /\ userData'.from = particleArr
            /\ userData'.to \in Targets(userData'.next)
            /\ particleArr' = particleArr
            /\ sparkleArr' = sparkleArr]_vars
    /\ [][isTrans => userData'.from = userData.from]_vars

C10_Witness ==
    /\ isTrans
    /\ ticks >= 1
    /\ userData.from # particleArr
    /\ userData.to \in Targets(userData.next)

\* C5: for every N >= 1 each of the four generators returns exactly N points,
\* none of them undefined.
C5_GeneratorsReturnN ==
    gen.pc \in {"done", "thrown"} =>
        /\ gen.pc = "done"
        /\ Len(gen.result) = gen.n
        /\ \A i \in 1..Len(gen.result) : Len(gen.result[i]) = 3

\* C6: halvorsen never throws for any N >= 1: whenever its padding loop runs,
\* the integration loop has collected at least one point to resample from.
C6_HalvorsenPadsFromNonEmpty ==
    gen.name = "halvorsen" =>
        /\ gen.pc # "thrown"
        /\ (gen.pc = "pad" /\ Len(gen.pts) < gen.n) => Len(gen.pts) >= 1

\* C11: after every Transitioning tick, main coordinate i is the stored value
\* of from[i] + (to[i] - from[i]) * eased(progress), computed from the same
\* index i of from and to; the buffer keeps all its coordinates.
C11_IndexCorrespondence ==
    ticks >= 1 =>
        /\ Len(particleArr) = BufLen
        /\ \A i \in 1..BufLen :
              particleArr[i] = fround(LerpVal(userData.from[i], userData.to[i], Eased(prog)))

C11_Witness ==
    /\ isTrans
    /\ ticks >= 2
    /\ userData.next = 2
    /\ \E i, j \in 1..BufLen :
          /\ userData.to[i] # userData.to[j]
          /\ particleArr[i] # userData.from[i] /\ particleArr[i] # userData.to[i]
          /\ particleArr[j] # userData.from[j] /\ particleArr[j] # userData.to[j]

\* C12: once a trigger is accepted and ticks keep occurring, the controller
\* returns to Idle; nothing cancels a transition before progress reaches 1 and
\* nothing restarts it or replaces its from, to or next.
C12_EventuallyIdle ==
    /\ isTrans ~> ~isTrans
    /\ [][isTrans => /\ prog' >= prog
                     /\ userData'.from = userData.from
                     /\ userData'.to = userData.to
                     /\ userData'.next = userData.next]_vars
    /\ [][(isTrans /\ ~isTrans') => prog' >= PROG_ONE]_vars

C12_Witness ==
    /\ ~isTrans
    /\ reentered
    /\ ticks = MorphTicks
    /\ prog >= PROG_ONE
    /\ currentPattern = userData.next

\* C17: the star, main and sparkle position buffers keep their lengths, and
\* while Transitioning from and to have the main buffer's length.
C17_BufferLengths ==
    /\ Len(starArr) = STAR_COUNT * 3
    /\ Len(particleArr) = PARTICLE_COUNT * 3
    /\ Len(sparkleArr) = SPARK_COUNT * 3
    /\ isTrans => /\ Len(userData.from) = PARTICLE_COUNT * 3
                  /\ Len(userData.to) = PARTICLE_COUNT * 3

C17_Witness ==
    /\ isTrans
    /\ ticks >= 1
    /\ particleNeedsUpdate
    /\ Len(userData.from) = Len(particleArr)
    /\ Len(userData.to) = Len(particleArr)

\* C18: no trigger and no tick writes the star position buffer after it is built.
C18_StarsStatic == [][starArr' = starArr]_vars

C18_Witness ==
    /\ ~isTrans
    /\ tickedIdle
    /\ ticks = MorphTicks
    /\ starArr \in StarFields
    /\ starArr # Zeros(StarLen)

\* C19: a tick taken while Idle leaves both position buffers, their
\* needsUpdate flags, progress, from, to, next and the current pattern as they
\* were; a tick that starts Transitioning rewrites the buffers and sets both flags.
C19_IdleTickFrame ==
    /\ [][(Tick /\ ~isTrans) =>
            UNCHANGED <<particleArr, sparkleArr, particleNeedsUpdate, sparkleNeedsUpdate,
                        prog, userData, currentPattern>>]_vars
    /\ [][(Tick /\ isTrans) =>
            /\ particleNeedsUpdate' /\ sparkleNeedsUpdate'
            /\ prog' # prog]_vars

C19_Witness ==
    /\ mounted
    /\ ~isTrans
    /\ tickedIdle
    /\ ~particleNeedsUpdate /\ ~sparkleNeedsUpdate
    /\ ticks = MorphTicks

\* C20: the eased value stays in [0,1], so after every Transitioning tick each
\* main coordinate lies between from[i] and to[i] inclusive.
C20_NoOvershoot ==
    /\ 0 <= Eased(prog) /\ Eased(prog) <= ONE
    /\ ticks >= 1 =>
          \A i \in 1..BufLen :
             /\ Min2(userData.from[i], userData.to[i]) <= particleArr[i]
             /\ particleArr[i] <= Max2(userData.from[i], userData.to[i])

\* The monotone part of C20 alone: over a transition the eased value does not
\* decrease and no coordinate moves back toward from[i].
MorphNeverMovesBack ==
    /\ [][isTrans => Eased(prog') >= Eased(prog)]_vars
    /\ [][(isTrans /\ ticks >= 1) =>
            \A i \in 1..BufLen :
               Abs(particleArr'[i] - userData.from[i]) >= Abs(particleArr[i] - userData.from[i])]_vars

\* the bounding box of a point set: new THREE.Box3().setFromPoints(points)
BoxLo(P, k) == AxisMin(P, k, Len(P))
BoxHi(P, k) == AxisMax(P, k, Len(P))

\* the largest dimension of the bounding box, exactly
BoxDim(P) ==
    Max2(BoxHi(P, 1) - BoxLo(P, 1), Max2(BoxHi(P, 2) - BoxLo(P, 2), BoxHi(P, 3) - BoxLo(P, 3)))

\* a first call of normalise has returned
NormReturned == gen.name = "normalise" /\ gen.pc = "done" /\ gen.run = 1

\* floating-point tolerance at magnitude size: 2^5 units in the last place of
\* a double (2^-48 * size in the program)
NormTol(size) == (size * ONE) \div 2 ^ (DBL_PREC - 5)

\* C13 as claimed: for a point set of non-zero extent the output's bounding
\* box is centred at the origin and its largest dimension equals the size.
C13_NormaliseExact ==
    (NormReturned /\ BoxDim(gen.pts) # 0) =>
        /\ BoxDim(gen.result) = gen.n * ONE
        /\ \A k \in 1..3 : BoxLo(gen.result, k) + BoxHi(gen.result, k) = 0

\* C13 as amended: the output has the input's length and order, each output
\* point is (input point - box centre) * size / maxDim, the box is centred at
\* the origin and its largest dimension is the size, all up to floating-point
\* rounding (NormTol).
C13_NormaliseScale ==
    (NormReturned /\ BoxDim(gen.pts) # 0) =>
        LET P == gen.pts
            Q == gen.result
            tol == NormTol(gen.n)
        IN  /\ Len(Q) = Len(P)
            /\ Abs(BoxDim(Q) - gen.n * ONE) <= tol
            /\ \A k \in 1..3 : Abs(BoxLo(Q, k) + BoxHi(Q, k)) <= 2 * tol
            /\ \A i \in 1..Len(P) : \A k \in 1..3 :
                  Abs(Q[i][k] * BoxDim(P)
                      - (2 * P[i][k] - BoxLo(P, k) - BoxHi(P, k)) * gen.n * (ONE \div 2))
                     <= tol * BoxDim(P)

C13_Witness ==
    /\ NormReturned
    /\ Len(gen.pts) = 2
    /\ BoxDim(gen.pts) # 0
    /\ BoxDim(gen.result) # gen.n * ONE
    /\ Abs(BoxDim(gen.result) - gen.n * ONE) <= NormTol(gen.n)

\* C14: when every input point is the same point, normalise returns the zero
\* vector repeated, of the input's length.
C14_NormaliseDegenerate ==
    (NormReturned /\ BoxDim(gen.pts) = 0) =>
        /\ Len(gen.result) = Len(gen.pts)
        /\ \A i \in 1..Len(gen.result) : gen.result[i] = <<0, 0, 0>>

C14_Witness ==
    /\ NormReturned
    /\ Len(gen.pts) = 2
    /\ gen.pts[1] = gen.pts[2]
    /\ gen.pts[1] # <<0, 0, 0>>
    /\ gen.result = <<(<<0, 0, 0>>), (<<0, 0, 0>>)>>

\* C15 as claimed: normalise(normalise(P, s), s) equals normalise(P, s).
C15_IdempotentExact == gen.run = 2 => gen.result = gen.first.result

\* C15 as amended: normalise(normalise(P, s), s) agrees with normalise(P, s)
\* coordinate by coordinate up to floating-point rounding (NormTol).
C15_IdempotentWithinTol ==
    (gen.name = "normalise" /\ gen.run = 2) =>
        /\ Len(gen.result) = Len(gen.first.result)
        /\ \A i \in 1..Len(gen.result) : \A k \in 1..3 :
              Abs(gen.result[i][k] - gen.first.result[i][k]) <= NormTol(gen.n)

C15_Witness ==
    /\ gen.name = "normalise"
    /\ gen.run = 2
    /\ gen.result # gen.first.result
    /\ \A i \in 1..Len(gen.result) : \A k \in 1..3 :
          Abs(gen.result[i][k] - gen.first.result[i][k]) <= NormTol(gen.n)

\* the number of points halvorsen's integration loop collects for count n
Samples(n) ==
    IF n * SAMPLE_EVERY > WARMUP + SAMPLE_EVERY
    THEN n - (WARMUP \div SAMPLE_EVERY + 1)
    ELSE 0

\* the second of two calls of the same generator with the same count has ended
SecondEnded == gen.name \in Generators /\ gen.run = 2 /\ gen.pc \in {"done", "thrown"}

\* C16 as claimed: two calls of the same generator with the same N return the
\* same point set, halvorsen's padded points included.
C16_Deterministic == (SecondEnded /\ gen.pc = "done") => gen.result = gen.first.result

\* C16 as amended: two calls with the same N end the same way; torusKnot,
\* dualHelix and deJong return the same point set; halvorsen returns the same
\* sampled points, and each padded point is a copy of a sampled point, which
\* may differ between the calls.
C16_DeterministicButPadding ==
    SecondEnded =>
        /\ gen.pc = gen.first.pc
        /\ gen.name # "halvorsen" => gen.result = gen.first.result
        /\ (gen.name = "halvorsen" /\ gen.pc = "done") =>
              /\ Len(gen.result) = gen.n
              /\ Len(gen.first.result) = gen.n
              /\ \A i \in 1..Samples(gen.n) : gen.result[i] = gen.first.result[i]
              /\ \A i \in (Samples(gen.n) + 1)..gen.n :
                    \E j \in 1..Samples(gen.n) : gen.result[i] = gen.result[j]

C16_Witness ==
    /\ SecondEnded
    /\ gen.name = "halvorsen"
    /\ gen.pc = "done"
    /\ Samples(gen.n) >= 2
    /\ gen.result # gen.first.result

\* a photo is open: the Lightbox is mounted with a non-null photoUrl
PhotoOpen == lightbox.mounted /\ Truthy(lightbox.photoUrl)

\* C21: once the effects have run, document.body.style.overflow is 'hidden'
\* exactly when the Lightbox is mounted with a non-null photoUrl, at most one
\* keydown handler of the component is registered, one is registered exactly
\* in that case and it calls the current onClose; a key press after the effects
\* have run calls onClose only if the key is Escape and a photo is open
C21_ScrollLock ==
    /\ ~lightbox.pending =>
          /\ (lightbox.overflow = "hidden") <=> PhotoOpen
          /\ Cardinality(lightbox.listeners) <= 1
          /\ (lightbox.listeners # {}) <=> PhotoOpen
          /\ \A h \in lightbox.listeners : h.onClose = lightbox.onClose
    /\ (lightbox.lastKey.settled /\ lightbox.lastKey.called # {}) =>
          /\ lightbox.lastKey.key = "Escape"
          /\ lightbox.lastKey.open
          /\ \A h \in lightbox.lastKey.called : h.onClose = lightbox.lastKey.onClose

\* a photo is open after the effect has run again (a second closure is the
\* registered one), the page is locked, and Escape has just called onClose
C21_Witness ==
    /\ PhotoOpen
    /\ ~lightbox.pending
    /\ lightbox.effect.id = 2
    /\ lightbox.overflow = "hidden"
    /\ lightbox.listeners = {[id |-> 2, onClose |-> lightbox.onClose]}
    /\ lightbox.lastKey.key = "Escape"
    /\ lightbox.lastKey.settled
    /\ lightbox.lastKey.called = lightbox.listeners

\* every read the handler started has finished, with load or with error
AllReadsFinished ==
    /\ upload.pc # "idle"
    /\ \A j \in 1..Len(upload.readers) : upload.readers[j].state # "pending"

\* the then callback of Promise.all is still to run
ThenPending ==
    /\ upload.pc = "reading"
    /\ \A j \in 1..Len(upload.readers) : upload.readers[j].state = "resolved"

\* one data URL per selected image file, in selection order
ExpectedUrls(files) ==
    [k \in 1..Len(ImageIndices(files)) |-> DataURL(files[ImageIndices(files)[k]])]

\* onPhotosUpload is called at most once, never for an empty selection, only
\* after every started read has finished, and with the data URLs of the image
\* files in selection order
UploadDeliversInOrder ==
    /\ Len(upload.calls) <= 1
    /\ Len(upload.files) = 0 => upload.calls = <<>>
    /\ upload.calls # <<>> =>
          /\ AllReadsFinished
          /\ upload.calls[1] = ExpectedUrls(upload.files)

\* C22: for a non-empty selection onPhotosUpload is invoked exactly once, after
\* every started read has finished, with one data URL per image file in
\* selection order; an empty selection never invokes it. "Eventually" in
\* finite form: when every started read has finished and no callback is left
\* to run, the call has been made
C22_UploadOnce ==
    /\ UploadDeliversInOrder
    /\ (Len(upload.files) > 0 /\ AllReadsFinished /\ ~ThenPending) =>
          Len(upload.calls) = 1
====
